---- MODULE Spec2Model ----
(***************************************************************************)
(* Model of the CloudFox graph ingestor (package ingestor): the Cypher     *)
(* templates it sends to the store, the per-file worker ProcessFileObjects,*)
(* the writer InsertDBObjects and the orchestrator Run.                    *)
(*                                                                         *)
(* A property value is modelled as a set of scalars: a singleton is a      *)
(* scalar, a larger set is the array that the 'combine' policy of          *)
(* apoc.refactor.mergeNodes builds out of conflicting values (the order of *)
(* that array is store-defined and is abstracted away).                    *)
(***************************************************************************)
EXTENDS Integers, Sequences, FiniteSets, TLC

\* ---------------------------------------------------------------- bounds
MaxLines == 2
MaxFileLines == 2
MaxFaults == 1
MaxOps == 3

\* lines of a file in the runs checked for termination
MaxLiveLines == 1

\* regions, projects of a region and capacity of the semaphore in the runs
\* of the CodeBuild enumeration
MaxRegions == 2
MaxProjects == 2
MaxGoroutines == 2

\* ------------------------------------------------------- generic helpers
Range(s) == {s[i] : i \in DOMAIN s}

EmptyMap == [k \in {} |-> {}]

Min(S) == CHOOSE m \in S : \A o \in S : m <= o

\* Cypher 'SET n += map': keys of new overwrite, other keys are retained
Overlay(old, new) ==
    [k \in (DOMAIN old) \cup (DOMAIN new) |->
        IF k \in DOMAIN new THEN new[k] ELSE old[k]]

\* ------------------------------------------------------------- the store
EmptyStore == [nodes |-> EmptyMap, rels |-> {}, nextNode |-> 1, nextRel |-> 1]

\* MERGE (n:L {ident}) : every node carrying label L and the ident values
MatchNodes(S, L, ident) ==
    {n \in DOMAIN S.nodes :
        /\ L \in S.nodes[n].labels
        /\ \A k \in DOMAIN ident :
              /\ k \in DOMAIN S.nodes[n].props
              /\ S.nodes[n].props[k] = ident[k]}

\* apoc.merge.node([L], ident, onCreate, onMatch) -- match-or-create
ApocMergeNode(S, L, ident, onCreate, onMatch) ==
    LET m == MatchNodes(S, L, ident) IN
    IF m = {}
    THEN [S |-> [S EXCEPT
                   !.nodes = (S.nextNode :> [labels |-> {L},
                                             props |-> Overlay(ident, onCreate)]) @@ @,
                   !.nextNode = @ + 1],
          out |-> {S.nextNode}]
    ELSE [S |-> [S EXCEPT !.nodes = [n \in DOMAIN S.nodes |->
                    IF n \in m
                    THEN [S.nodes[n] EXCEPT !.props = Overlay(@, onMatch)]
                    ELSE S.nodes[n]]],
          out |-> m]

\* apoc.create.setLabels(obj, labels): the node's labels become exactly labels
SetLabelsFirstOnly(S, ns, labels) ==
    [S EXCEPT !.nodes = [n \in DOMAIN S.nodes |->
        IF n \in ns THEN [S.nodes[n] EXCEPT !.labels = {labels[1]}]
        ELSE S.nodes[n]]]

SetLabels(S, ns, labels) ==
    [S EXCEPT !.nodes = [n \in DOMAIN S.nodes |->
        IF n \in ns THEN [S.nodes[n] EXCEPT !.labels = Range(labels)]
        ELSE S.nodes[n]]]

\* MergeNodeQueryTemplate with parameters Id, labels, properties
MergeNodeQuery(S, labels, nodeMap) ==
    LET r == ApocMergeNode(S, labels[1], [Id |-> nodeMap["Id"]], nodeMap, nodeMap)
    IN  SetLabels(r.S, r.out, labels)

\* apoc.merge.relationship(from, type, {}, props, to): identProps is {} so
\* any relationship of that type from -> to matches; props is the
\* onCreateProps argument, onMatchProps is left at its default {}
ApocMergeRelationshipAlwaysCreate(S, from, typ, props, to) ==
    [S EXCEPT !.rels = @ \cup {[rid |-> S.nextRel, src |-> from, typ |-> typ,
                                dst |-> to, props |-> props]},
              !.nextRel = @ + 1]

ApocMergeRelationship(S, from, typ, props, to) ==
    IF \E r \in S.rels : r.src = from /\ r.typ = typ /\ r.dst = to
    THEN S
    ELSE [S EXCEPT !.rels = @ \cup {[rid |-> S.nextRel, src |-> from, typ |-> typ,
                                     dst |-> to, props |-> props]},
                   !.nextRel = @ + 1]

RECURSIVE MergePairs(_, _, _, _)
MergePairs(S, pairs, typ, props) ==
    IF pairs = {} THEN S
    ELSE LET p == CHOOSE q \in pairs : \A o \in pairs :
                     q[1] < o[1] \/ (q[1] = o[1] /\ q[2] <= o[2])
         IN  MergePairs(ApocMergeRelationship(S, p[1], typ, props, p[2]),
                        pairs \ {p}, typ, props)

\* one row of MergeRelationQueryTemplate
MergeRelationRowMatchOnly(S, row) ==
    MergePairs(S, MatchNodes(S, row.sourceLabel,
                             (row.sourceProperty :> {row.sourceNodeId}))
                  \X MatchNodes(S, row.targetLabel,
                                (row.targetProperty :> {row.targetNodeId})),
               row.relationshipType, row.properties)

MergeRelationRow(S, row) ==
    LET f == ApocMergeNode(S, row.sourceLabel,
                 (row.sourceProperty :> {row.sourceNodeId}), EmptyMap, EmptyMap)
        t == ApocMergeNode(f.S, row.targetLabel,
                 (row.targetProperty :> {row.targetNodeId}), EmptyMap, EmptyMap)
    IN  MergePairs(t.S, f.out \X t.out, row.relationshipType, row.properties)

\* MergeRelationQueryTemplate: UNWIND $batch as row ...
RECURSIVE MergeRelationQuery(_, _)
MergeRelationQuery(S, batch) ==
    IF batch = <<>> THEN S
    ELSE MergeRelationQuery(MergeRelationRow(S, Head(batch)), Tail(batch))

\* --------------------------------------------------- the global resolver
\* 'WITH n.Id AS Id, COLLECT(n)': nodes without an Id property group under
\* the null key, written {} here (no property value is the empty set)
IdKey(S, n) ==
    IF "Id" \in DOMAIN S.nodes[n].props THEN S.nodes[n].props["Id"] ELSE {}

GroupOf(S, n) == {m \in DOMAIN S.nodes : IdKey(S, m) = IdKey(S, n)}

\* properties: 'combine' -- union of the keys, conflicting values collected
CombineProps(maps) ==
    [k \in UNION {DOMAIN m : m \in maps} |->
        UNION {m[k] : m \in {q \in maps : k \in DOMAIN q}}]

\* apoc.refactor.mergeNodes(group, {properties:'combine', mergeRels:true})
\* applied to every group of size > 1; the first collected node survives
MergeGroups(S, group) ==
    LET merged(n) == Cardinality(group[n]) > 1
        surv(n)   == Min(group[n])
        keep      == {surv(n) : n \in DOMAIN S.nodes}
        nodes2    == [n \in keep |->
                        [labels |-> UNION {S.nodes[m].labels : m \in group[n]},
                         props  |-> CombineProps({S.nodes[m].props : m \in group[n]})]]
        touched   == {r \in S.rels : merged(r.src) \/ merged(r.dst)}
        moved(r)  == [r EXCEPT !.src = surv(r.src), !.dst = surv(r.dst)]
        same(r)   == {q \in touched : /\ surv(q.src) = surv(r.src)
                                      /\ surv(q.dst) = surv(r.dst)
                                      /\ q.typ = r.typ}
        rels2     == {[moved(r) EXCEPT !.props = CombineProps({q.props : q \in same(r)})]
                        : r \in {q \in touched : q.rid = Min({o.rid : o \in same(q)})}}
    IN  [S EXCEPT !.nodes = nodes2, !.rels = (S.rels \ touched) \cup rels2]

\* PostProcessMergeQueryTemplate
PostProcessMergeQueryPerLabel(S) ==
    MergeGroups(S, [n \in DOMAIN S.nodes |->
        {m \in GroupOf(S, n) : S.nodes[m].labels = S.nodes[n].labels}])

PostProcessMergeQuery(S) ==
    MergeGroups(S, [n \in DOMAIN S.nodes |-> GroupOf(S, n)])

\* ----------------------------------------------- records and conversions
\* a record instance is a function from its Go field names to strings;
\* Nil is the nil schema.Node
Nil == EmptyMap

\* schema.ConvertCustomTypesToNeo4j: every field becomes a store primitive
ConvertCustomTypesToNeo4j(object) == [k \in DOMAIN object |-> {object[k]}]

\* the loop body of InsertDBObjects for one descriptor: default the two
\* property names, then json.Marshal / json.Unmarshal into the row map
RowOfNoTargetDefault(rel) ==
    [relationshipType |-> rel.RelationshipType,
     sourceLabel      |-> rel.SourceLabel,
     sourceProperty   |-> IF rel.SourceProperty = "" THEN "Id" ELSE rel.SourceProperty,
     sourceNodeId     |-> rel.SourceNodeID,
     targetLabel      |-> rel.TargetLabel,
     targetProperty   |-> rel.TargetProperty,
     targetNodeId     |-> rel.TargetNodeID,
     properties       |-> rel.Properties]

RowOf(rel) ==
    [relationshipType |-> rel.RelationshipType,
     sourceLabel      |-> rel.SourceLabel,
     sourceProperty   |-> IF rel.SourceProperty = "" THEN "Id" ELSE rel.SourceProperty,
     sourceNodeId     |-> rel.SourceNodeID,
     targetLabel      |-> rel.TargetLabel,
     targetProperty   |-> IF rel.TargetProperty = "" THEN "Id" ELSE rel.TargetProperty,
     targetNodeId     |-> rel.TargetNodeID,
     properties       |-> rel.Properties]

BatchOf(relationships) == [i \in DOMAIN relationships |-> RowOf(relationships[i])]

\* the two store calls of InsertDBObjects
InsertNode(S, object, labels) ==
    MergeNodeQuery(S, labels, ConvertCustomTypesToNeo4j(object))

InsertRelationships(S, relationships) ==
    MergeRelationQuery(S, BatchOf(relationships))

\* InsertDBObjects as one call; fault names the call that fails, if any.
\* mid is the store after the node part, S the store on return.
InsertDBObjects(S, object, relationships, labels, fault) ==
    LET nodeRuns == object # Nil
        relRuns  == Len(relationships) > 0
    IN  IF nodeRuns /\ fault \in {"convert", "node"}
        THEN [mid |-> S, S |-> S, err |-> TRUE, batch |-> <<>>]
        ELSE LET mid == IF nodeRuns THEN InsertNode(S, object, labels) ELSE S
             IN  IF ~relRuns
                 THEN [mid |-> mid, S |-> mid, err |-> FALSE, batch |-> <<>>]
                 ELSE IF fault = "rel"
                 THEN [mid |-> mid, S |-> mid, err |-> TRUE,
                       batch |-> BatchOf(relationships)]
                 ELSE [mid |-> mid, S |-> InsertRelationships(mid, relationships),
                       err |-> FALSE, batch |-> BatchOf(relationships)]

\* ------------------------------------------------------------ the state
VARIABLES
    store,      \* the graph held by the Neo4j server
    proto,      \* models.NodeLabelToNodeMap: the record instance of each label
    dir,        \* the entries filepath.Walk visits under graphOutputDir
    runPc,      \* position of Run
    nextEntry,  \* index of the next entry the walk visits
    wpc,        \* position of the goroutine of each entry
    widx,       \* number of lines its scanner has consumed
    wrels,      \* its local variable relationships
    wgCount,    \* counter of fileWg
    result,     \* value returned by Run
    driverOpen, \* i.Driver not yet closed
    faults,     \* failures injected so far
    stats,      \* per goroutine: logged decode errors, store queries issued
    opened,     \* entries passed to os.Open
    pre,        \* the store as the resolver query found it
    ops,        \* calls made by a direct caller of InsertDBObjects
    last,       \* the latest such call: arguments, store before and after
    wpend,      \* per goroutine: fields json.Unmarshal has still to store
    runLog,     \* resolver queries issued by Run, kinds of failure met
    wlog,       \* per goroutine: errors logged, value returned, Done calls,
                \* line and record of its latest node query
    cbRegions,  \* m.AWSRegions: per region, has it CodeBuild, its projects
    goroutines, \* m.Goroutines, the capacity of the semaphore channel
    mainPc,     \* position of PrintCodeBuildProjects
    nextRegion, \* index of the next region of its loop
    wg,         \* counter of its WaitGroup
    sem,        \* elements held by the semaphore channel
    epc,        \* position of the executeChecks goroutine of each region
    esent,      \* projects it has sent on dataReceiver
    elog,       \* its acquires and releases of the semaphore so far
    rpc,        \* position of the Receiver goroutine
    rdata,      \* the Project it has received and not yet appended
    projects,   \* m.Projects
    spc         \* position of the spinner goroutine

vars == <<store, proto, dir, runPc, nextEntry, wpc, widx, wrels, wgCount,
          result, driverOpen, faults, stats, opened, pre, ops, last,
          wpend, runLog, wlog,
          cbRegions, goroutines, mainPc, nextRegion, wg, sem, epc, esent, elog,
          rpc, rdata, projects, spc>>

runVars == <<proto, dir, runPc, nextEntry, wpc, widx, wrels, wgCount,
             result, driverOpen, stats, opened, pre, wpend, runLog, wlog>>

cbVars == <<cbRegions, goroutines, mainPc, nextRegion, wg, sem, epc, esent, elog,
            rpc, rdata, projects, spc>>

\* PrintCodeBuildProjects is not running
CbIdle ==
    /\ cbRegions = <<>>
    /\ goroutines = 1
    /\ mainPc = "idle"
    /\ nextRegion = 1
    /\ wg = 0
    /\ sem = 0
    /\ epc = <<>>
    /\ esent = <<>>
    /\ elog = <<>>
    /\ rpc = "idle"
    /\ rdata = <<>>
    /\ projects = <<>>
    /\ spc = "idle"

NoCall == [op |-> "none", object |-> Nil, relationships |-> <<>>, labels |-> <<>>,
           before |-> EmptyStore, mid |-> EmptyStore, batch |-> <<>>, err |-> FALSE]

\* --------------------------------- direct callers of the exported writer
Rel(sp, sid, tp, tid, props) ==
    [RelationshipType |-> "TRUSTS",
     SourceLabel |-> "Role", SourceProperty |-> sp, SourceNodeID |-> sid,
     TargetLabel |-> "Account", TargetProperty |-> tp, TargetNodeID |-> tid,
     Properties |-> props]

dA == Rel("", "r", "", "x", EmptyMap)
dB == Rel("", "r", "", "x", [since |-> {"2024"}])
dC == Rel("Name", "admin", "Id", "x", EmptyMap)
dD == Rel("Name", "audit", "", "y", [since |-> {"2023"}])

WriterBatches == {<<dA>>, <<dB>>, <<dA, dA>>, <<dA, dB>>, <<dC>>, <<dD>>, <<dC, dD>>}

WriterCalls ==
       {[object |-> Nil, relationships |-> b, labels |-> <<"Role", "Role">>]
            : b \in WriterBatches}
  \cup {[object |-> [Id |-> "x", Name |-> n], relationships |-> <<>>,
         labels |-> <<"Account", "Account">>] : n \in {"", "prod"}}
  \cup {[object |-> [Id |-> "x", Name |-> "prod"], relationships |-> <<>>,
         labels |-> <<"Resource", "Account">>],
        [object |-> [Id |-> "x", Arn |-> "arn:x"], relationships |-> <<>>,
         labels |-> <<"Resource", "Role">>],
        [object |-> [Id |-> "r", Name |-> "admin"], relationships |-> <<dA>>,
         labels |-> <<"Role", "Role">>]}

InitIdle ==
    /\ store = EmptyStore
    /\ proto = EmptyMap
    /\ dir = <<>>
    /\ runPc = "idle"
    /\ nextEntry = 1
    /\ wpc = <<>>
    /\ widx = <<>>
    /\ wrels = <<>>
    /\ wgCount = 0
    /\ result = "none"
    /\ driverOpen = TRUE
    /\ faults = 0
    /\ stats = <<>>
    /\ opened = {}
    /\ pre = EmptyStore
    /\ ops = 0
    /\ last = NoCall
    /\ wpend = <<>>
    /\ runLog = [resolves |-> 0, failed |-> {}]
    /\ wlog = <<>>

InitWriter == InitIdle /\ CbIdle

\* a call of InsertDBObjects that returns nil
WriterInsert ==
    /\ runPc = "idle"
    /\ ops < MaxOps
    /\ \E c \in WriterCalls :
          LET r == InsertDBObjects(store, c.object, c.relationships, c.labels, "none")
          IN  /\ store' = r.S
              /\ last' = [op |-> "insert", object |-> c.object,
                          relationships |-> c.relationships, labels |-> c.labels,
                          before |-> store, mid |-> r.mid, batch |-> r.batch,
                          err |-> r.err]
    /\ ops' = ops + 1
    /\ UNCHANGED <<runVars, faults, cbVars>>

\* a call of InsertDBObjects in which the conversion or a store call fails
WriterInsertFails ==
    /\ runPc = "idle"
    /\ ops < MaxOps
    /\ faults < MaxFaults
    /\ \E c \in WriterCalls, f \in {"convert", "node", "rel"} :
          LET r == InsertDBObjects(store, c.object, c.relationships, c.labels, f)
          IN  /\ r.err
              /\ store' = r.S
              /\ last' = [op |-> "insert", object |-> c.object,
                          relationships |-> c.relationships, labels |-> c.labels,
                          before |-> store, mid |-> r.mid, batch |-> r.batch,
                          err |-> r.err]
    /\ ops' = ops + 1
    /\ faults' = faults + 1
    /\ UNCHANGED <<runVars, cbVars>>

\* the resolver query issued between calls
WriterResolve ==
    /\ runPc = "idle"
    /\ ops < MaxOps
    /\ store' = PostProcessMergeQuery(store)
    /\ last' = [NoCall EXCEPT !.op = "resolve", !.before = store, !.mid = store]
    /\ ops' = ops + 1
    /\ UNCHANGED <<runVars, faults, cbVars>>

NextWriter == WriterInsert \/ WriterInsertFails \/ WriterResolve

SpecWriter == InitWriter /\ [][NextWriter]_vars

\* ------------------------------------------- properties of the two upserts
LastInsertOk == last.op = "insert" /\ ~last.err

LastSentBatch == LastInsertOk /\ last.batch # <<>>

SourceIdent(row) == (row.sourceProperty :> {row.sourceNodeId})
TargetIdent(row) == (row.targetProperty :> {row.targetNodeId})

NoDuplicateEdge(S) ==
    \A r1, r2 \in S.rels :
        (r1.src = r2.src /\ r1.typ = r2.typ /\ r1.dst = r2.dst) => r1 = r2

IsStubOf(node, row) ==
    \/ node = [labels |-> {row.sourceLabel}, props |-> SourceIdent(row)]
    \/ node = [labels |-> {row.targetLabel}, props |-> TargetIdent(row)]

Linked(S, row) ==
    /\ MatchNodes(S, row.sourceLabel, SourceIdent(row)) # {}
    /\ MatchNodes(S, row.targetLabel, TargetIdent(row)) # {}
    /\ \A f \in MatchNodes(S, row.sourceLabel, SourceIdent(row)),
          t \in MatchNodes(S, row.targetLabel, TargetIdent(row)) :
          \E r \in S.rels : r.src = f /\ r.dst = t /\ r.typ = row.relationshipType

\* C4: relationship upsert never duplicates an edge -- after any sequence of
\* node upserts, relationship batches (repeated or not) and resolver passes
\* there is at most one relationship of a type between two nodes; a batch
\* links the endpoints of every row, and every node it creates is a stub
\* holding one label and only the identity field of a row.
C4_RelationUpsertNeverDuplicates ==
    /\ NoDuplicateEdge(store)
    /\ LastSentBatch =>
         /\ \A i \in DOMAIN last.batch : Linked(store, last.batch[i])
         /\ \A n \in (DOMAIN store.nodes) \ (DOMAIN last.mid.nodes) :
               \E i \in DOMAIN last.batch : IsStubOf(store.nodes[n], last.batch[i])
         /\ \A n \in DOMAIN last.mid.nodes :
               n \in DOMAIN store.nodes /\ store.nodes[n] = last.mid.nodes[n]

\* a batch was repeated: its relationship already existed, a stub was created
\* earlier and the repeat added neither a node nor a relationship
C4_Witness ==
    /\ LastSentBatch
    /\ Linked(last.mid, last.batch[1])
    /\ store.rels = last.mid.rels /\ store.rels # {}
    /\ \E n \in DOMAIN store.nodes : IsStubOf(store.nodes[n], last.batch[1])

\* C5 (as claimed): after a batch is upserted, the relationship of its last
\* row carries that row's Properties, whether it was created or matched.
C5_PropertiesMergedOnMatch ==
    LastSentBatch =>
        LET row == last.batch[Len(last.batch)] IN
        \A f \in MatchNodes(store, row.sourceLabel, SourceIdent(row)),
           t \in MatchNodes(store, row.targetLabel, TargetIdent(row)) :
           \E r \in store.rels :
              /\ r.src = f /\ r.dst = t /\ r.typ = row.relationshipType
              /\ \A k \in DOMAIN row.properties :
                    k \in DOMAIN r.props /\ r.props[k] = row.properties[k]

\* C6: node upsert matches or creates on (first label, Id), sets the labels
\* to the full LabelSet and merges the property map: keys absent from the
\* new map keep their value, keys present take the new value, none is lost.
C6_NodeUpsertMerges ==
    (LastInsertOk /\ last.object # Nil) =>
        LET nodeMap == [k \in DOMAIN last.object |-> {last.object[k]}]
            old     == last.before.nodes
            new     == last.mid.nodes
            hit     == {n \in DOMAIN old : /\ last.labels[1] \in old[n].labels
                                           /\ "Id" \in DOMAIN old[n].props
                                           /\ old[n].props["Id"] = nodeMap["Id"]}
            fresh   == (DOMAIN new) \ (DOMAIN old)
        IN  /\ DOMAIN old \subseteq DOMAIN new
            /\ \A n \in (DOMAIN old) \ hit : new[n] = old[n]
            /\ \A n \in hit :
                  /\ new[n].labels = {last.labels[i] : i \in DOMAIN last.labels}
                  /\ DOMAIN new[n].props = (DOMAIN old[n].props) \cup (DOMAIN nodeMap)
                  /\ \A k \in DOMAIN new[n].props :
                        new[n].props[k] = IF k \in DOMAIN nodeMap THEN nodeMap[k]
                                          ELSE old[n].props[k]
            /\ hit # {} => fresh = {}
            /\ hit = {} =>
                  /\ Cardinality(fresh) = 1
                  /\ \A n \in fresh :
                        new[n] = [labels |-> {last.labels[i] : i \in DOMAIN last.labels},
                                  props  |-> nodeMap]
            /\ last.mid.rels = last.before.rels

\* an upsert matched an existing node that held a key the new map lacks and
\* that carried another label set
C6_Witness ==
    /\ LastInsertOk /\ last.object # Nil
    /\ \E n \in DOMAIN last.before.nodes :
          /\ last.labels[1] \in last.before.nodes[n].labels
          /\ "Id" \in DOMAIN last.before.nodes[n].props
          /\ last.before.nodes[n].props["Id"] = {last.object["Id"]}
          /\ (DOMAIN last.before.nodes[n].props) \ (DOMAIN last.object) # {}
          /\ last.before.nodes[n].labels # last.mid.nodes[n].labels
          /\ last.before.nodes[n].props # last.mid.nodes[n].props

\* C7: in the batch that is sent an empty SourceProperty / TargetProperty is
\* "Id", a non-empty one is unchanged, every other field is the descriptor's;
\* so after the upsert an endpoint given with an empty property is a node of
\* its label whose Id is the descriptor's node id.
C7_DefaultPropertyResolution ==
    (last.op = "insert" /\ last.batch # <<>>) =>
        /\ Len(last.batch) = Len(last.relationships)
        /\ \A i \in DOMAIN last.batch :
              LET rel == last.relationships[i]
                  row == last.batch[i]
              IN  /\ row.sourceProperty =
                        IF rel.SourceProperty = "" THEN "Id" ELSE rel.SourceProperty
                  /\ row.targetProperty =
                        IF rel.TargetProperty = "" THEN "Id" ELSE rel.TargetProperty
                  /\ row.sourceLabel = rel.SourceLabel /\ row.sourceNodeId = rel.SourceNodeID
                  /\ row.targetLabel = rel.TargetLabel /\ row.targetNodeId = rel.TargetNodeID
                  /\ row.relationshipType = rel.RelationshipType
                  /\ row.properties = rel.Properties
                  /\ (~last.err /\ rel.SourceProperty = "") =>
                        \E n \in DOMAIN store.nodes :
                           /\ rel.SourceLabel \in store.nodes[n].labels
                           /\ "Id" \in DOMAIN store.nodes[n].props
                           /\ store.nodes[n].props["Id"] = {rel.SourceNodeID}
                  /\ (~last.err /\ rel.TargetProperty = "") =>
                        \E n \in DOMAIN store.nodes :
                           /\ rel.TargetLabel \in store.nodes[n].labels
                           /\ "Id" \in DOMAIN store.nodes[n].props
                           /\ store.nodes[n].props["Id"] = {rel.TargetNodeID}

\* a batch was sent that held an empty and a non-empty property name
C7_Witness ==
    /\ LastSentBatch
    /\ \E i \in DOMAIN last.relationships : last.relationships[i].TargetProperty = ""
    /\ \E i \in DOMAIN last.relationships : last.relationships[i].SourceProperty = "Name"
    /\ \E n \in DOMAIN store.nodes : store.nodes[n].props = [Id |-> {"y"}]

\* ------------------------------------------------- registry and records
\* the switch of ProcessFile: the label of a recognised basename
LookupAllAccounts(name) ==
    IF name = "roles.jsonl" THEN "Role" ELSE "Account"

Lookup(name) ==
    IF name = "accounts.jsonl" THEN "Account"
    ELSE IF name = "roles.jsonl" THEN "Role"
    ELSE "none"

\* models.NodeLabelToNodeMap as the package initialises it
ZeroProto ==
    [Account |-> [Id |-> "", Name |-> ""],
     Role    |-> [Id |-> "", Name |-> "", Trust |-> ""]]

\* json.Unmarshal(line, &object) on a well-formed line: object holds the
\* pointer taken from the map, so the fields the line names are stored into
\* that instance and the fields it omits keep what the instance held
Decode(object, doc) ==
    [k \in DOMAIN object |-> IF k \in DOMAIN doc THEN doc[k] ELSE object[k]]

\* object.MakeRelationships(): a role yields a TRUSTS edge to the account
\* its trust policy names, an account yields none
MakeRelationships(label, object) ==
    IF label = "Role" /\ object["Trust"] # ""
    THEN << Rel("", object["Id"], "", object["Trust"], EmptyMap) >>
    ELSE << >>

\* []schema.NodeLabel{generalType, objectType} of ProcessFileObjects
LabelsOf(label) == <<label, label>>

\* ------------------------------------------------------ the input files
Blank   == [kind |-> "blank", doc |-> EmptyMap]
Bad     == [kind |-> "bad",   doc |-> EmptyMap]
Json(d) == [kind |-> "json",  doc |-> d]

AccountLines == {Blank, Bad, Json([Id |-> "x", Name |-> "prod"]), Json([Id |-> "y"])}
RoleLines    == {Blank, Bad, Json([Id |-> "r", Trust |-> "x"]),
                 Json([Id |-> "x", Name |-> "dev"])}

FilesOver(alphabet, n) == UNION {[1..k -> alphabet] : k \in 0..n}

Entry(path, name, lines) == [path |-> path, name |-> name, lines |-> lines]

\* the entries below the root in the lexical order filepath.Walk uses
Listing(hasAcc, acc, hasNotes, hasRoles, roles, hasSub, sub) ==
       (IF hasAcc   THEN <<Entry("accounts.jsonl", "accounts.jsonl", acc)>> ELSE <<>>)
    \o (IF hasNotes THEN <<Entry("notes.txt", "notes.txt",
                                 <<Json([Id |-> "x", Name |-> "prod"])>>)>> ELSE <<>>)
    \o (IF hasRoles THEN <<Entry("roles.jsonl", "roles.jsonl", roles)>> ELSE <<>>)
    \o (IF hasSub   THEN <<Entry("sub", "sub", <<>>),
                           Entry("sub/roles.jsonl", "roles.jsonl", sub)>> ELSE <<>>)

Workers == DOMAIN dir

LabelOfWorker(w) == Lookup(dir[w].name)

NoStats == [decodeErrs |-> 0, nodeQ |-> 0, relQ |-> 0]

NoLog == [insertErrs |-> 0, ret |-> "none", dones |-> 0, line |-> 0, object |-> Nil]

InitRun(d) ==
    /\ dir = d
    /\ store = EmptyStore
    /\ proto = ZeroProto
    /\ runPc = "connecting"
    /\ nextEntry = 1
    /\ wpc = [w \in DOMAIN d |-> "idle"]
    /\ widx = [w \in DOMAIN d |-> 0]
    /\ wrels = [w \in DOMAIN d |-> <<>>]
    /\ wgCount = 0
    /\ result = "none"
    /\ driverOpen = TRUE
    /\ faults = 0
    /\ stats = [w \in DOMAIN d |-> NoStats]
    /\ opened = {}
    /\ pre = EmptyStore
    /\ ops = 0
    /\ last = NoCall
    /\ wpend = [w \in DOMAIN d |-> {}]
    /\ runLog = [resolves |-> 0, failed |-> {}]
    /\ wlog = [w \in DOMAIN d |-> NoLog]
    /\ CbIdle

\* any directory holding at most MaxLines lines in its recognised files; one
\* that has the subdirectory with its roles file has no accounts file
Init ==
    \E hasAcc, hasNotes, hasRoles, hasSub \in BOOLEAN :
    \E acc \in FilesOver(AccountLines, MaxLines),
       roles \in FilesOver(RoleLines, MaxLines),
       sub \in FilesOver(RoleLines, MaxLines) :
        /\ ~hasAcc => acc = <<>>
        /\ ~hasRoles => roles = <<>>
        /\ ~hasSub => sub = <<>>
        /\ hasSub => ~hasAcc
        /\ Len(acc) + Len(roles) + Len(sub) <= MaxLines
        /\ InitRun(Listing(hasAcc, acc, hasNotes, hasRoles, roles, hasSub, sub))

\* the same roles file present twice, at the root and in a subdirectory
InitTwice ==
    \E hasNotes \in BOOLEAN :
    \E f \in FilesOver(RoleLines, MaxFileLines) :
        InitRun(Listing(FALSE, <<>>, hasNotes, TRUE, f, TRUE, f))

\* --------------------------------------------------------- file workers
callVars == <<ops, last>>

\* the deferred fileWg.Done() of the goroutine, after ProcessFile returned ret
FinishNoDone(w, ret) ==
    /\ wpc' = [wpc EXCEPT ![w] = "done"]
    /\ wgCount' = wgCount
    /\ wlog' = [wlog EXCEPT ![w].ret = ret]

Finish(w, ret) ==
    /\ wpc' = [wpc EXCEPT ![w] = "done"]
    /\ wgCount' = wgCount - 1
    /\ wlog' = [wlog EXCEPT ![w].ret = ret, ![w].dones = @ + 1]

\* where the loop of ProcessFileObjects goes after reading a line: a line
\* that fails to decode is logged and skipped, any other line is written
AfterScanNoContinue(kind) == "mkrel"

AfterScan(kind) == IF kind = "bad" THEN "scan" ELSE "mkrel"

\* where the loop goes when InsertDBObjects returned an error from its node
\* part or its relationship part: log it and continue with the next line
AfterInsertErrorKeepsWriting(part) == IF part = "node" THEN "rels" ELSE "scan"

AfterInsertError(part) == "scan"

\* the record instance of the goroutine is also the one of another goroutine
Shared(w) == \E v \in Workers \ {w} : LabelOfWorker(v) = LabelOfWorker(w)

\* ProcessFile on a basename the switch does not know: return nil
WorkerSkip(w) ==
    /\ wpc[w] = "start"
    /\ LabelOfWorker(w) = "none"
    /\ Finish(w, "nil")
    /\ UNCHANGED <<store, proto, dir, runPc, nextEntry, widx, wrels, result,
                   driverOpen, faults, stats, opened, pre, callVars, cbVars,
                   wpend, runLog>>

\* ProcessFileObjects: take the record instance of the label, open the file
WorkerOpen(w) ==
    /\ wpc[w] = "start"
    /\ LabelOfWorker(w) # "none"
    /\ opened' = opened \cup {w}
    /\ wpc' = [wpc EXCEPT ![w] = "scan"]
    /\ UNCHANGED <<store, proto, dir, runPc, nextEntry, widx, wrels, wgCount,
                   result, driverOpen, faults, stats, pre, callVars, cbVars,
                   wpend, runLog, wlog>>

\* os.Open fails: ProcessFileObjects returns the error, the goroutine drops it
WorkerOpenFails(w) ==
    /\ wpc[w] = "start"
    /\ LabelOfWorker(w) # "none"
    /\ faults < MaxFaults
    /\ faults' = faults + 1
    /\ runLog' = [runLog EXCEPT !.failed = @ \cup {"open"}]
    /\ opened' = opened \cup {w}
    /\ Finish(w, "err")
    /\ UNCHANGED <<store, proto, dir, runPc, nextEntry, widx, wrels, result,
                   driverOpen, stats, pre, callVars, cbVars, wpend>>

\* scanner.Scan() returns a line; a non-empty line is unmarshalled into the
\* record instance.  json.Unmarshal stores the fields one after the other
\* and nothing orders it with the other goroutines: when the instance is
\* shared the stores are separate steps, taken in any order; when it is not,
\* nobody can observe them and they are taken at once.
WorkerScan(w) ==
    /\ wpc[w] = "scan"
    /\ widx[w] < Len(dir[w].lines)
    /\ LET line == dir[w].lines[widx[w] + 1]
           l    == LabelOfWorker(w)
       IN  /\ widx' = [widx EXCEPT ![w] = @ + 1]
           /\ stats' = IF line.kind = "bad"
                       THEN [stats EXCEPT ![w].decodeErrs = @ + 1]
                       ELSE stats
           /\ IF line.kind = "json" /\ Shared(w)
              THEN \E k \in DOMAIN line.doc :
                      /\ proto' = [proto EXCEPT ![l] = Decode(@, (k :> line.doc[k]))]
                      /\ wpend' = [wpend EXCEPT ![w] = (DOMAIN line.doc) \ {k}]
                      /\ wpc' = [wpc EXCEPT ![w] = IF DOMAIN line.doc = {k}
                                                   THEN AfterScan(line.kind)
                                                   ELSE "decode"]
              ELSE /\ proto' = IF line.kind = "json"
                               THEN [proto EXCEPT ![l] = Decode(@, line.doc)]
                               ELSE proto
                   /\ wpc' = [wpc EXCEPT ![w] = AfterScan(line.kind)]
                   /\ UNCHANGED wpend
    /\ UNCHANGED <<store, dir, runPc, nextEntry, wrels, wgCount, result,
                   driverOpen, faults, opened, pre, callVars, cbVars, runLog, wlog>>

\* json.Unmarshal stores the next field of the line into the shared instance
WorkerDecodeField(w) ==
    /\ wpc[w] = "decode"
    /\ LET line == dir[w].lines[widx[w]]
           l    == LabelOfWorker(w)
       IN  \E k \in wpend[w] :
              /\ proto' = [proto EXCEPT ![l] = Decode(@, (k :> line.doc[k]))]
              /\ wpend' = [wpend EXCEPT ![w] = @ \ {k}]
              /\ wpc' = [wpc EXCEPT ![w] = IF wpend[w] = {k}
                                           THEN AfterScan(line.kind)
                                           ELSE "decode"]
    /\ UNCHANGED <<store, dir, runPc, nextEntry, widx, wrels, wgCount, result,
                   driverOpen, faults, stats, opened, pre, callVars, cbVars,
                   runLog, wlog>>

\* scanner.Scan() returns false: return nil
WorkerEof(w) ==
    /\ wpc[w] = "scan"
    /\ widx[w] = Len(dir[w].lines)
    /\ Finish(w, "nil")
    /\ UNCHANGED <<store, proto, dir, runPc, nextEntry, widx, wrels, result,
                   driverOpen, faults, stats, opened, pre, callVars, cbVars,
                   wpend, runLog>>

\* relationships := object.MakeRelationships()
WorkerMakeRelationships(w) ==
    /\ wpc[w] = "mkrel"
    /\ wrels' = [wrels EXCEPT ![w] =
                    MakeRelationships(LabelOfWorker(w), proto[LabelOfWorker(w)])]
    /\ wpc' = [wpc EXCEPT ![w] = "node"]
    /\ UNCHANGED <<store, proto, dir, runPc, nextEntry, widx, wgCount, result,
                   driverOpen, faults, stats, opened, pre, callVars, cbVars,
                   wpend, runLog, wlog>>

\* InsertDBObjects, node part: convert the record and run the node query
WorkerInsertNode(w) ==
    /\ wpc[w] = "node"
    /\ store' = InsertNode(store, proto[LabelOfWorker(w)], LabelsOf(LabelOfWorker(w)))
    /\ stats' = [stats EXCEPT ![w].nodeQ = @ + 1]
    /\ wlog' = [wlog EXCEPT ![w].line = widx[w],
                            ![w].object = proto[LabelOfWorker(w)]]
    /\ wpc' = [wpc EXCEPT ![w] = IF Len(wrels[w]) > 0 THEN "rels" ELSE "scan"]
    /\ UNCHANGED <<proto, dir, runPc, nextEntry, widx, wrels, wgCount, result,
                   driverOpen, faults, opened, pre, callVars, cbVars, wpend, runLog>>

\* the conversion or the node query fails: log, return err, next line
WorkerInsertNodeFails(w) ==
    /\ wpc[w] = "node"
    /\ faults < MaxFaults
    /\ faults' = faults + 1
    /\ runLog' = [runLog EXCEPT !.failed = @ \cup {"node"}]
    /\ wlog' = [wlog EXCEPT ![w].insertErrs = @ + 1]
    /\ wpc' = [wpc EXCEPT ![w] = AfterInsertError("node")]
    /\ wrels' = [wrels EXCEPT ![w] = <<>>]
    /\ UNCHANGED <<store, proto, dir, runPc, nextEntry, widx, wgCount, result,
                   driverOpen, stats, opened, pre, callVars, cbVars, wpend>>

\* InsertDBObjects, relationship part: send the batch
WorkerInsertRels(w) ==
    /\ wpc[w] = "rels"
    /\ store' = InsertRelationships(store, wrels[w])
    /\ stats' = [stats EXCEPT ![w].relQ = @ + 1]
    /\ wpc' = [wpc EXCEPT ![w] = "scan"]
    /\ wrels' = [wrels EXCEPT ![w] = <<>>]
    /\ UNCHANGED <<proto, dir, runPc, nextEntry, widx, wgCount, result,
                   driverOpen, faults, opened, pre, callVars, cbVars,
                   wpend, runLog, wlog>>

\* the relationship query fails: log, return err, next line
WorkerInsertRelsFails(w) ==
    /\ wpc[w] = "rels"
    /\ faults < MaxFaults
    /\ faults' = faults + 1
    /\ runLog' = [runLog EXCEPT !.failed = @ \cup {"rel"}]
    /\ wlog' = [wlog EXCEPT ![w].insertErrs = @ + 1]
    /\ wpc' = [wpc EXCEPT ![w] = AfterInsertError("rel")]
    /\ wrels' = [wrels EXCEPT ![w] = <<>>]
    /\ UNCHANGED <<store, proto, dir, runPc, nextEntry, widx, wgCount, result,
                   driverOpen, stats, opened, pre, callVars, cbVars, wpend>>

\* ------------------------------------------------------------------ Run
\* fileWg.Wait() returns when the counter is zero
WaitReturnsEarly(count) == TRUE

WaitReturns(count) == count = 0

\* what Run returns once the post processing query has answered
RunResultSwallowed(err) == "ok"

RunResult(err) == IF err THEN "err" ELSE "ok"

\* VerifyConnectivity succeeds; defer i.Driver.Close
RunConnect ==
    /\ runPc = "connecting"
    /\ runPc' = "walking"
    /\ UNCHANGED <<store, proto, dir, nextEntry, wpc, widx, wrels, wgCount,
                   result, driverOpen, faults, stats, opened, pre, callVars, cbVars,
                   wpend, runLog, wlog>>

\* VerifyConnectivity fails: return err before the defer is registered
RunConnectFails ==
    /\ runPc = "connecting"
    /\ faults < MaxFaults
    /\ faults' = faults + 1
    /\ runLog' = [runLog EXCEPT !.failed = @ \cup {"connect"}]
    /\ result' = "err"
    /\ runPc' = "returned"
    /\ UNCHANGED <<store, proto, dir, nextEntry, wpc, widx, wrels, wgCount,
                   driverOpen, stats, opened, pre, callVars, cbVars, wpend, wlog>>

\* the walk callback on the next entry: fileWg.Add(1); go func ...
RunWalk ==
    /\ runPc = "walking"
    /\ nextEntry <= Len(dir)
    /\ wgCount' = wgCount + 1
    /\ wpc' = [wpc EXCEPT ![nextEntry] = "start"]
    /\ nextEntry' = nextEntry + 1
    /\ UNCHANGED <<store, proto, dir, runPc, widx, wrels, result, driverOpen,
                   faults, stats, opened, pre, callVars, cbVars, wpend, runLog, wlog>>

\* the walk is over and fileWg.Wait() returns
RunWait ==
    /\ runPc = "walking"
    /\ nextEntry > Len(dir)
    /\ WaitReturns(wgCount)
    /\ runPc' = "resolving"
    /\ UNCHANGED <<store, proto, dir, nextEntry, wpc, widx, wrels, wgCount,
                   result, driverOpen, faults, stats, opened, pre, callVars, cbVars,
                   wpend, runLog, wlog>>

\* the post processing merge query succeeds; return nil; deferred Close
RunResolve ==
    /\ runPc = "resolving"
    /\ pre' = store
    /\ store' = PostProcessMergeQuery(store)
    /\ runLog' = [runLog EXCEPT !.resolves = @ + 1]
    /\ result' = RunResult(FALSE)
    /\ driverOpen' = FALSE
    /\ runPc' = "returned"
    /\ UNCHANGED <<proto, dir, nextEntry, wpc, widx, wrels, wgCount, faults,
                   stats, opened, callVars, cbVars, wpend, wlog>>

\* the post processing merge query fails; return err; deferred Close
RunResolveFails ==
    /\ runPc = "resolving"
    /\ faults < MaxFaults
    /\ faults' = faults + 1
    /\ pre' = store
    /\ runLog' = [runLog EXCEPT !.resolves = @ + 1, !.failed = @ \cup {"resolve"}]
    /\ result' = RunResult(TRUE)
    /\ driverOpen' = FALSE
    /\ runPc' = "returned"
    /\ UNCHANGED <<store, proto, dir, nextEntry, wpc, widx, wrels, wgCount,
                   stats, opened, callVars, cbVars, wpend, wlog>>

Next ==
    \/ RunConnect
    \/ RunConnectFails
    \/ RunWalk
    \/ RunWait
    \/ RunResolve
    \/ RunResolveFails
    \/ \E w \in Workers : WorkerSkip(w)
    \/ \E w \in Workers : WorkerOpen(w)
    \/ \E w \in Workers : WorkerOpenFails(w)
    \/ \E w \in Workers : WorkerScan(w)
    \/ \E w \in Workers : WorkerDecodeField(w)
    \/ \E w \in Workers : WorkerEof(w)
    \/ \E w \in Workers : WorkerMakeRelationships(w)
    \/ \E w \in Workers : WorkerInsertNode(w)
    \/ \E w \in Workers : WorkerInsertNodeFails(w)
    \/ \E w \in Workers : WorkerInsertRels(w)
    \/ \E w \in Workers : WorkerInsertRelsFails(w)

Spec == Init /\ [][Next]_vars

SpecTwice == InitTwice /\ [][Next]_vars

\* a short roles file present twice, at the root and in a subdirectory
InitLive ==
    \E f \in FilesOver(RoleLines, MaxLiveLines) :
        InitRun(Listing(FALSE, <<>>, FALSE, TRUE, f, TRUE, f))

\* the scheduler runs every goroutine and the store answers every query:
\* as long as a step of Run or of a goroutine is possible, one is taken
SpecLive == InitLive /\ [][Next]_vars /\ WF_vars(Next)

\* ------------------------------------------- sequential reference ingest
\* ProcessFileObjects run alone on the lines of one file, from the record
\* instance object: the store and the instance it leaves behind
RECURSIVE IngestLines(_, _, _, _)
IngestLines(S, object, label, lines) ==
    IF lines = <<>> THEN [S |-> S, object |-> object]
    ELSE LET line == Head(lines)
             o2   == IF line.kind = "json" THEN Decode(object, line.doc) ELSE object
         IN  IF AfterScan(line.kind) = "scan"
             THEN IngestLines(S, object, label, Tail(lines))
             ELSE IngestLines(
                     InsertDBObjects(S, o2, MakeRelationships(label, o2),
                                     LabelsOf(label), "none").S,
                     o2, label, Tail(lines))

\* a graph up to the identity of its nodes and relationships
Canon(S) ==
    [nodes  |-> {S.nodes[n] : n \in DOMAIN S.nodes},
     nnodes |-> Cardinality(DOMAIN S.nodes),
     rels   |-> {[src |-> S.nodes[r.src], typ |-> r.typ, dst |-> S.nodes[r.dst],
                  props |-> r.props] : r \in S.rels},
     nrels  |-> Cardinality(S.rels)]

HasPath(path) == \E w \in Workers : dir[w].path = path

LinesAt(path) ==
    IF HasPath(path) THEN dir[CHOOSE w \in Workers : dir[w].path = path].lines
    ELSE <<>>

\* Run returned nil and nothing failed on the way
Done == runPc = "returned" /\ result = "ok" /\ faults = 0

CountKind(w, kind, upto) ==
    Cardinality({i \in 1..upto : dir[w].lines[i].kind = kind})

\* ------------------------------------------------ properties of a Run
\* C1 (as claimed): the same roles file ingested twice in a Run leaves the
\* graph that ingesting it once leaves.
C1_IngestTwiceSameAsOnce ==
    Done =>
        Canon(store) =
            Canon(PostProcessMergeQuery(
                    IngestLines(EmptyStore, ZeroProto["Role"], "Role",
                                LinesAt("roles.jsonl")).S))

AccountsThenRoles ==
    LET a == IngestLines(EmptyStore, ZeroProto["Account"], "Account",
                         LinesAt("accounts.jsonl"))
        r == IngestLines(a.S, ZeroProto["Role"], "Role", LinesAt("roles.jsonl"))
    IN  PostProcessMergeQuery(r.S)

RolesThenAccounts ==
    LET r == IngestLines(EmptyStore, ZeroProto["Role"], "Role", LinesAt("roles.jsonl"))
        a == IngestLines(r.S, ZeroProto["Account"], "Account",
                         LinesAt("accounts.jsonl"))
    IN  PostProcessMergeQuery(a.S)

HasId(S, n) == "Id" \in DOMAIN S.nodes[n].props

\* the node of S that took over node n of pre
Survivors(S, n) ==
    {s \in DOMAIN S.nodes : HasId(S, s) /\ S.nodes[s].props["Id"] = pre.nodes[n].props["Id"]}

\* C3: resolver convergence -- after the resolver pass of a Run no two nodes
\* carry the same Id; each node the pass found lives on in the one node of
\* its Id, which has its labels, its property keys and values and its
\* relationships; a second pass changes nothing.
C3_ResolverConverges ==
    (runPc = "returned" /\ result = "ok") =>
        /\ \A n, m \in DOMAIN store.nodes :
              (HasId(store, n) /\ HasId(store, m)
                 /\ store.nodes[n].props["Id"] = store.nodes[m].props["Id"]) => n = m
        /\ \A n \in DOMAIN pre.nodes : HasId(pre, n) =>
              /\ Cardinality(Survivors(store, n)) = 1
              /\ \A s \in Survivors(store, n) :
                    /\ pre.nodes[n].labels \subseteq store.nodes[s].labels
                    /\ \A k \in DOMAIN pre.nodes[n].props :
                          /\ k \in DOMAIN store.nodes[s].props
                          /\ pre.nodes[n].props[k] \subseteq store.nodes[s].props[k]
                    /\ \A k \in DOMAIN store.nodes[s].props :
                          store.nodes[s].props[k] =
                             UNION {pre.nodes[m].props[k] :
                                      m \in {q \in DOMAIN pre.nodes :
                                               /\ HasId(pre, q)
                                               /\ pre.nodes[q].props["Id"] = pre.nodes[n].props["Id"]
                                               /\ k \in DOMAIN pre.nodes[q].props}}
        /\ \A r \in pre.rels : (HasId(pre, r.src) /\ HasId(pre, r.dst)) =>
              \E q \in store.rels :
                 /\ q.typ = r.typ
                 /\ q.src \in Survivors(store, r.src)
                 /\ q.dst \in Survivors(store, r.dst)
                 /\ \A k \in DOMAIN r.props :
                       k \in DOMAIN q.props /\ r.props[k] \subseteq q.props[k]
        /\ Cardinality(store.rels) <= Cardinality(pre.rels)
        /\ PostProcessMergeQuery(store) = store

\* the pass found two nodes with the same Id under different label sets, one
\* of them with a relationship, and left one node with both label sets
C3_Witness ==
    /\ runPc = "returned" /\ result = "ok"
    /\ \E n, m \in DOMAIN pre.nodes :
          /\ n # m
          /\ HasId(pre, n) /\ HasId(pre, m)
          /\ pre.nodes[n].props["Id"] = pre.nodes[m].props["Id"]
          /\ pre.nodes[n].labels # pre.nodes[m].labels
          /\ \E r \in pre.rels : r.dst = n
          /\ \E s \in DOMAIN store.nodes :
                store.nodes[s].labels = pre.nodes[n].labels \cup pre.nodes[m].labels
    /\ Cardinality(DOMAIN store.nodes) < Cardinality(DOMAIN pre.nodes)

Recognised == {"accounts.jsonl", "roles.jsonl"}

NoBlank(w) == \A i \in DOMAIN dir[w].lines : dir[w].lines[i].kind # "blank"

JsonIds(w) ==
    {dir[w].lines[i].doc["Id"] :
        i \in {j \in DOMAIN dir[w].lines : dir[w].lines[j].kind = "json"}}

DistinctIds(w) ==
    Cardinality(JsonIds(w)) = CountKind(w, "json", Len(dir[w].lines))

OnlyFileOfItsName(w) == \A v \in Workers : dir[v].name = dir[w].name => v = w

\* C8: malformed-line resilience -- a line that fails to decode is logged
\* once and reaches neither the node query nor the relationship query; the
\* worker goes on, so a file of n valid lines with distinct Ids and m
\* malformed lines issues n node upserts, leaves one node per valid line
\* and Run returns nil.
C8_MalformedLineSkipped ==
    /\ \A w \in Workers : dir[w].name \in Recognised =>
          /\ stats[w].decodeErrs = CountKind(w, "bad", widx[w])
          /\ wpc[w] \in {"mkrel", "node", "rels"} =>
                dir[w].lines[widx[w]].kind # "bad"
          /\ stats[w].nodeQ <= widx[w] - CountKind(w, "bad", widx[w])
          /\ stats[w].relQ <= widx[w] - CountKind(w, "bad", widx[w])
          /\ (wpc[w] = "done" /\ faults = 0 /\ NoBlank(w)) =>
                /\ widx[w] = Len(dir[w].lines)
                /\ stats[w].nodeQ = CountKind(w, "json", Len(dir[w].lines))
          /\ (Done /\ NoBlank(w) /\ DistinctIds(w) /\ OnlyFileOfItsName(w)) =>
                /\ \A id \in JsonIds(w) :
                      Cardinality(MatchNodes(store, Lookup(dir[w].name),
                                             [Id |-> {id}])) = 1
                /\ Cardinality(UNION {MatchNodes(store, Lookup(dir[w].name), [Id |-> {id}])
                                        : id \in JsonIds(w)})
                      = CountKind(w, "json", Len(dir[w].lines))
    /\ (runPc = "returned" /\ faults = 0) => result = "ok"

\* a file with a valid and a malformed line was ingested: one logged error,
\* one node upsert, Run returned nil
C8_Witness ==
    /\ Done
    /\ \E w \in Workers :
          /\ dir[w].name \in Recognised /\ NoBlank(w)
          /\ CountKind(w, "bad", Len(dir[w].lines)) = 1
          /\ CountKind(w, "json", Len(dir[w].lines)) = 1
          /\ dir[w].lines[1].kind = "bad"
          /\ stats[w].decodeErrs = 1 /\ stats[w].nodeQ = 1
          /\ store.nodes # EmptyMap

\* C9 (as claimed): a blank line causes no node upsert and no relationship
\* upsert -- a worker has issued at most one node upsert and one batch per
\* well-formed line it has read.
C9_BlankLinesIgnored ==
    \A w \in Workers :
        /\ stats[w].nodeQ <= CountKind(w, "json", widx[w])
        /\ stats[w].relQ <= CountKind(w, "json", widx[w])

\* C10: unknown-file skip -- an entry whose basename is not in the registry
\* is never opened, never read and issues no query; a directory holding
\* only such entries leaves the store empty; Run returns an error only
\* when a call failed.
C10_UnknownFileSkipped ==
    /\ \A w \in Workers : dir[w].name \notin Recognised =>
          /\ w \notin opened
          /\ widx[w] = 0
          /\ stats[w] = NoStats
          /\ wpc[w] \in {"idle", "start", "done"}
    /\ (\A w \in Workers : dir[w].name \notin Recognised) => store = EmptyStore
    /\ (runPc = "returned" /\ faults = 0) => result = "ok"

\* a Run over a directory holding notes.txt (with a well-formed account
\* line in it) and nothing else returned nil with the store empty
C10_Witness ==
    /\ Done
    /\ Workers # {}
    /\ \A w \in Workers : dir[w].name = "notes.txt" /\ wpc[w] = "done"
                          /\ dir[w].lines # <<>>
    /\ store = EmptyStore

\* ------------------------------------------------- the phases of one Run
\* Run got past VerifyConnectivity
PassedConnecting == runPc # "connecting" /\ "connect" \notin runLog.failed

\* every entry of the directory was dispatched and its goroutine is over
AllWorkersDone ==
    /\ nextEntry > Len(dir)
    /\ \A w \in Workers : wpc[w] = "done"

ResolverPhase == PassedConnecting /\ runPc \in {"resolving", "returned"}

\* C11: fan-in is a hard barrier and the resolver runs exactly once -- in a
\* Run that got past the connectivity check the resolver query is issued at
\* most once before Run returns and exactly once when it has returned, it is
\* issued only when every dispatched worker is over, and from the moment Run
\* stands at the resolver no worker issues a node or relationship query.
C11_FanInBarrier ==
    /\ [](/\ runLog.resolves <= 1
          /\ ResolverPhase => AllWorkersDone /\ wgCount = 0
          /\ runLog.resolves = 1 => AllWorkersDone
          /\ (runPc = "resolving") => runLog.resolves = 0
          /\ (runPc = "returned" /\ PassedConnecting) => runLog.resolves = 1)
    /\ [][ResolverPhase => stats' = stats]_vars

\* two workers each wrote a node, then the resolver ran once and Run returned
C11_Witness ==
    /\ runPc = "returned"
    /\ runLog.resolves = 1
    /\ \E v, w \in Workers : v # w /\ stats[v].nodeQ > 0 /\ stats[w].nodeQ > 0

\* the failures a goroutine absorbs
WorkerFailures == {"open", "node", "rel"}

\* C12: Run returns an error exactly when the connectivity check or the
\* resolver query failed; a failure inside a worker is never the result of
\* Run and stops no other file: when a connected Run has returned, every
\* goroutine is over and every recognised file that could be opened was read
\* to its last line.
C12_ErrorPropagation ==
    runPc = "returned" =>
        /\ result \in {"ok", "err"}
        /\ (result = "err") <=> (runLog.failed \cap {"connect", "resolve"} # {})
        /\ PassedConnecting =>
              \A w \in Workers :
                 /\ wpc[w] = "done"
                 /\ (LabelOfWorker(w) # "none" /\ wlog[w].ret = "nil")
                       => widx[w] = Len(dir[w].lines)

\* a worker met a failure, another worker wrote its node, Run returned nil
C12_Witness ==
    /\ runPc = "returned" /\ result = "ok"
    /\ runLog.failed \cap WorkerFailures # {}
    /\ \E v, w \in Workers :
          /\ v # w
          /\ wlog[v].ret = "err" \/ wlog[v].insertErrs > 0
          /\ stats[w].nodeQ > 0 /\ widx[w] = Len(dir[w].lines)

\* C13 (as claimed): every Run that has returned has closed the driver, on
\* the success path, on the resolver failure path and on the fail-fast
\* connectivity failure path, and the driver is never closed before the
\* resolver query was attempted.
C13_DriverReleased ==
    /\ runPc = "returned" => ~driverOpen
    /\ ~driverOpen => runLog.resolves = 1

\* --------------------------------------------------- the decoded records
\* the line for which goroutine w issued its latest node query
WrittenLine(w) == dir[w].lines[wlog[w].line]

WroteJsonLine(w) == wlog[w].line > 0 /\ WrittenLine(w).kind = "json"

\* C14 (as claimed): every line is decoded into a fresh record -- the record
\* a worker writes for a line holds the fields of that line and the zero
\* value of every field the line omits, whatever earlier lines, files or
\* runs were decoded before it.
C14_FreshRecordPerLine ==
    \A w \in Workers :
        WroteJsonLine(w) =>
            wlog[w].object = Decode(ZeroProto[LabelOfWorker(w)], WrittenLine(w).doc)

\* C15 (as claimed): concurrent workers share no record -- whatever the
\* interleaving, also of two files with the same basename in different
\* directories, every field that a line names has the value of that line in
\* the record its worker writes for it.
C15_WorkersShareNoRecord ==
    \A w \in Workers :
        WroteJsonLine(w) =>
            \A k \in DOMAIN WrittenLine(w).doc :
                wlog[w].object[k] = WrittenLine(w).doc[k]

\* ------------------------------------------------- failures inside a file
\* lines consumed by goroutine w that decoded without error
Attempted(w) == widx[w] - CountKind(w, "bad", widx[w])

\* C16: a failure of the conversion, of the node upsert or of the
\* relationship upsert of one line costs only the remaining writes of that
\* line -- a relationship batch is sent only after the node of its line was
\* written, every line that decoded either had its node written or logged
\* one error, the worker goes on to the last line of the file, and
\* ProcessFileObjects returns nil whatever was logged.
C16_PerLineFailureIsolation ==
    \A w \in Workers :
        /\ stats[w].relQ <= stats[w].nodeQ
        /\ wpc[w] \in {"scan", "done"} =>
              /\ stats[w].nodeQ <= Attempted(w)
              /\ Attempted(w) <= stats[w].nodeQ + wlog[w].insertErrs
        /\ (wpc[w] = "done" /\ wlog[w].insertErrs > 0) =>
              /\ wlog[w].ret = "nil"
              /\ widx[w] = Len(dir[w].lines)

\* the node upsert of the first line failed, the worker went on and wrote
\* the node of the second line, and returned nil
C16_Witness ==
    \E w \in Workers :
        /\ wpc[w] = "done" /\ wlog[w].ret = "nil"
        /\ Len(dir[w].lines) = 2
        /\ wlog[w].insertErrs = 1
        /\ stats[w].nodeQ = 1 /\ wlog[w].line = 2

\* ------------------------------------------------ what the resolver merges
\* nodes of the store as the resolver found it that it may unify: distinct,
\* both holding an Id, the same Id
SameIdentity(S, n, m) ==
    /\ HasId(S, n) /\ HasId(S, m)
    /\ S.nodes[n].props["Id"] = S.nodes[m].props["Id"]

\* C17 (as claimed): the resolver merges two nodes only when both hold an Id
\* and the Ids are equal -- a node that has no Id, such as a stub created
\* through a SourceProperty other than Id, is still in the store after the
\* resolver, unchanged and on its own.
C17_MergesOnlyOnSharedId ==
    last.op = "resolve" =>
        \A n \in DOMAIN last.before.nodes :
            (\A m \in DOMAIN last.before.nodes : m # n => ~SameIdentity(last.before, n, m))
                => /\ n \in DOMAIN store.nodes
                   /\ store.nodes[n] = last.before.nodes[n]

\* ------------------------------------------------------------ termination
\* goroutines started and not yet over
Running == {w \in Workers : wpc[w] \notin {"idle", "done"}}

\* C18: Run terminates when the store answers, and every worker signals its
\* completion exactly once on each of its paths (unknown basename, open
\* failure, end of file) -- Run eventually returns; the counter of fileWg is
\* always the number of goroutines started and not yet over; a goroutine
\* calls Done once, when it is over; and when a connected Run has returned,
\* every entry of the directory was dispatched and has signalled once.
C18_RunTerminates ==
    /\ <>(runPc = "returned")
    /\ [](/\ wgCount = Cardinality(Running)
          /\ \A w \in Workers :
                wlog[w].dones = (IF wpc[w] = "done" THEN 1 ELSE 0)
          /\ (runPc = "returned" /\ PassedConnecting) =>
                /\ nextEntry = Len(dir) + 1
                /\ \A w \in Workers : wlog[w].dones = 1)

\* Run returned after one goroutine ended on an unknown basename, one on a
\* failed open and one at the end of its file, each having signalled once
C18_Witness ==
    /\ runPc = "returned" /\ PassedConnecting
    /\ \E u, v, w \in Workers :
          /\ LabelOfWorker(u) = "none" /\ wlog[u].ret = "nil"
          /\ wlog[v].ret = "err"
          /\ LabelOfWorker(w) # "none" /\ wlog[w].ret = "nil"
          /\ widx[w] = Len(dir[w].lines) /\ stats[w].nodeQ > 0
          /\ wlog[u].dones = 1 /\ wlog[v].dones = 1 /\ wlog[w].dones = 1

\* ------------------------------------------ CodeBuild enumeration (aws)
ingestVars == <<store, faults, runVars, callVars>>

Regions == DOMAIN cbRegions

\* the Project values the worker of region r sends
ProjectsOf(r) == {<<r, i>> : i \in 1..cbRegions[r].count}

AllProjects == UNION {ProjectsOf(r) : r \in Regions}

NoSemLog == [acquired |-> 0, released |-> 0]

\* PrintCodeBuildProjects has made its channels and started the spinner and
\* the Receiver; up to MaxRegions regions, each with or without the service
\* and with up to MaxProjects projects
InitCodeBuild ==
    /\ InitIdle
    /\ \E n \in 0..MaxRegions :
       \E rs \in [1..n -> [serviced : BOOLEAN, count : 0..MaxProjects]] :
          /\ \A r \in 1..n : ~rs[r].serviced => rs[r].count = 0
          /\ cbRegions = rs
          /\ epc = [r \in 1..n |-> "idle"]
          /\ esent = [r \in 1..n |-> 0]
          /\ elog = [r \in 1..n |-> NoSemLog]
    /\ goroutines \in 1..MaxGoroutines
    /\ mainPc = "spawn"
    /\ nextRegion = 1
    /\ wg = 0
    /\ sem = 0
    /\ rpc = "select"
    /\ rdata = <<>>
    /\ projects = <<>>
    /\ spc = "spin"

\* wg.Add(1) of executeChecks before it calls the worker of the region
AddsOnService(serviced) == IF serviced THEN 1 ELSE 0

\* a send on the semaphore channel proceeds while the buffer has room
SemaphoreAlwaysRoom(held, capacity) == TRUE

SemaphoreHasRoom(held, capacity) == held < capacity

\* the Receiver stores a Project it received
ReceivedOverwrites(ps, data) == <<data>>

Received(ps, data) == Append(ps, data)

\* the spinner goroutine: it waits for a value on its channel, then sends
\* one back and returns
SpinUntil(pc) == IF pc = "spin" THEN "ack" ELSE "returned"

\* the loop over m.AWSRegions: wg.Add(1); go m.executeChecks(region, ...)
CbSpawn ==
    /\ mainPc = "spawn"
    /\ nextRegion <= Len(cbRegions)
    /\ wg' = wg + 1
    /\ epc' = [epc EXCEPT ![nextRegion] = "check"]
    /\ nextRegion' = nextRegion + 1
    /\ UNCHANGED <<ingestVars, cbRegions, goroutines, mainPc, sem, esent, elog,
                   rpc, rdata, projects, spc>>

\* the loop is over and wg.Wait() returns
CbWait ==
    /\ mainPc = "spawn"
    /\ nextRegion > Len(cbRegions)
    /\ wg = 0
    /\ mainPc' = "spinnerStop"
    /\ UNCHANGED <<ingestVars, cbRegions, goroutines, nextRegion, wg, sem, epc,
                   esent, elog, rpc, rdata, projects, spc>>

\* spinnerDone <- true, received by the spinner
CbSpinnerStop ==
    /\ mainPc = "spinnerStop"
    /\ spc = "spin"
    /\ spc' = SpinUntil(spc)
    /\ mainPc' = "spinnerAck"
    /\ UNCHANGED <<ingestVars, cbRegions, goroutines, nextRegion, wg, sem, epc,
                   esent, elog, rpc, rdata, projects>>

\* <-spinnerDone, sent by the spinner
CbSpinnerAck ==
    /\ mainPc = "spinnerAck"
    /\ spc = "ack"
    /\ spc' = SpinUntil(spc)
    /\ mainPc' = "receiverStop"
    /\ UNCHANGED <<ingestVars, cbRegions, goroutines, nextRegion, wg, sem, epc,
                   esent, elog, rpc, rdata, projects>>

\* receiverDone <- true, taken by the select of the Receiver
CbReceiverStop ==
    /\ mainPc = "receiverStop"
    /\ rpc = "select"
    /\ rpc' = "ack"
    /\ mainPc' = "receiverAck"
    /\ UNCHANGED <<ingestVars, cbRegions, goroutines, nextRegion, wg, sem, epc,
                   esent, elog, rdata, projects, spc>>

\* <-receiverDone, sent by the Receiver, which returns and closes the
\* channel; PrintCodeBuildProjects goes on to read m.Projects
CbReceiverAck ==
    /\ mainPc = "receiverAck"
    /\ rpc = "ack"
    /\ rpc' = "returned"
    /\ mainPc' = "done"
    /\ UNCHANGED <<ingestVars, cbRegions, goroutines, nextRegion, wg, sem, epc,
                   esent, elog, rdata, projects, spc>>

\* executeChecks: IsServiceInRegion; if res { wg.Add(1); call the worker }
CbCheck(r) ==
    /\ epc[r] = "check"
    /\ wg' = wg + AddsOnService(cbRegions[r].serviced)
    /\ epc' = [epc EXCEPT ![r] = IF cbRegions[r].serviced THEN "acquire"
                                 ELSE "outerDone"]
    /\ UNCHANGED <<ingestVars, cbRegions, goroutines, mainPc, nextRegion, sem,
                   esent, elog, rpc, rdata, projects, spc>>

\* getcodeBuildProjectsPerRegion: semaphore <- struct{}{}, then the list call
CbAcquire(r) ==
    /\ epc[r] = "acquire"
    /\ SemaphoreHasRoom(sem, goroutines)
    /\ sem' = sem + 1
    /\ elog' = [elog EXCEPT ![r].acquired = @ + 1]
    /\ epc' = [epc EXCEPT ![r] = IF cbRegions[r].count > 0 THEN "send"
                                 ELSE "release"]
    /\ UNCHANGED <<ingestVars, cbRegions, goroutines, mainPc, nextRegion, wg,
                   esent, rpc, rdata, projects, spc>>

\* dataReceiver <- Project{...}, taken by the select of the Receiver
CbSend(r) ==
    /\ epc[r] = "send"
    /\ rpc = "select"
    /\ rdata' = <<<<r, esent[r] + 1>>>>
    /\ rpc' = "append"
    /\ esent' = [esent EXCEPT ![r] = @ + 1]
    /\ epc' = [epc EXCEPT ![r] = IF esent[r] + 1 < cbRegions[r].count
                                 THEN "send" ELSE "release"]
    /\ UNCHANGED <<ingestVars, cbRegions, goroutines, mainPc, nextRegion, wg,
                   sem, elog, projects, spc>>

\* m.Projects = append(m.Projects, data)
CbAppend ==
    /\ rpc = "append"
    /\ projects' = Received(projects, rdata[1])
    /\ rdata' = <<>>
    /\ rpc' = "select"
    /\ UNCHANGED <<ingestVars, cbRegions, goroutines, mainPc, nextRegion, wg,
                   sem, epc, esent, elog, spc>>

\* the deferred <-semaphore of the worker
CbRelease(r) ==
    /\ epc[r] = "release"
    /\ sem' = sem - 1
    /\ elog' = [elog EXCEPT ![r].released = @ + 1]
    /\ epc' = [epc EXCEPT ![r] = "innerDone"]
    /\ UNCHANGED <<ingestVars, cbRegions, goroutines, mainPc, nextRegion, wg,
                   esent, rpc, rdata, projects, spc>>

\* the deferred wg.Done() of the worker; it returns to executeChecks
CbInnerDone(r) ==
    /\ epc[r] = "innerDone"
    /\ wg' = wg - 1
    /\ epc' = [epc EXCEPT ![r] = "outerDone"]
    /\ UNCHANGED <<ingestVars, cbRegions, goroutines, mainPc, nextRegion, sem,
                   esent, elog, rpc, rdata, projects, spc>>

\* the deferred wg.Done() of executeChecks; the goroutine is over
CbOuterDone(r) ==
    /\ epc[r] = "outerDone"
    /\ wg' = wg - 1
    /\ epc' = [epc EXCEPT ![r] = "over"]
    /\ UNCHANGED <<ingestVars, cbRegions, goroutines, mainPc, nextRegion, sem,
                   esent, elog, rpc, rdata, projects, spc>>

NextCodeBuild ==
    \/ CbSpawn
    \/ CbWait
    \/ CbSpinnerStop
    \/ CbSpinnerAck
    \/ CbReceiverStop
    \/ CbReceiverAck
    \/ CbAppend
    \/ \E r \in Regions : CbCheck(r)
    \/ \E r \in Regions : CbAcquire(r)
    \/ \E r \in Regions : CbSend(r)
    \/ \E r \in Regions : CbRelease(r)
    \/ \E r \in Regions : CbInnerDone(r)
    \/ \E r \in Regions : CbOuterDone(r)

SpecCodeBuild == InitCodeBuild /\ [][NextCodeBuild]_vars

\* ------------------------------------- properties of the CodeBuild fan-in
\* Projects whose send on dataReceiver has completed
Sent == {d \in AllProjects : d[2] <= esent[d[1]]}

Copies(ps, d) == Cardinality({k \in DOMAIN ps : ps[k] = d})

Held == Range(rdata)

HandshakeBegun == rpc \in {"ack", "returned"}

\* C19: the fan-in loses and duplicates nothing -- a Project that was sent is
\* either in m.Projects once or held by the Receiver about to append it, and
\* nothing else is in m.Projects; from the moment the Receiver has taken the
\* stop signal, and so when PrintCodeBuildProjects reads m.Projects, every
\* Project of every region is there exactly once and none is appended any
\* more; and with a semaphore of capacity 1 or more the only state in which
\* no goroutine can move is the one where both handshakes are over.
C19_FanInLosesNothing ==
    /\ \A d \in AllProjects :
          IF d \in Sent
          THEN Copies(projects, d) + Copies(rdata, d) = 1
          ELSE Copies(projects, d) + Copies(rdata, d) = 0
    /\ Range(projects) \subseteq AllProjects
    /\ HandshakeBegun =>
          /\ Sent = AllProjects /\ Held = {}
          /\ Len(projects) = Cardinality(AllProjects)
    /\ mainPc = "done" => rpc = "returned" /\ spc = "returned"
    /\ (~ ENABLED NextCodeBuild) => mainPc = "done"

\* two regions sent two Projects each, interleaved, through a semaphore of
\* capacity two, and PrintCodeBuildProjects reads all four
C19_Witness ==
    /\ mainPc = "done"
    /\ goroutines = 2
    /\ Len(projects) = 4
    /\ projects[1][1] # projects[2][1]
    /\ projects[2][1] # projects[3][1]

\* workers between the acquire and the release of the semaphore
Holding == {r \in Regions : epc[r] \in {"send", "release"}}

\* goroutines of executeChecks started and not over
RunningChecks == {r \in Regions : epc[r] \notin {"idle", "over"}}

\* C20: the semaphore bounds the concurrency and the WaitGroup covers every
\* worker -- the workers between acquire and release are as many as the
\* elements in the semaphore and at most m.Goroutines; a worker releases
\* once what it acquired once, whether its region has projects or not; the
\* WaitGroup counter is at least the number of goroutines still running, so
\* it is not zero while one runs, and the wait returns only when all are over.
C20_BoundedConcurrency ==
    /\ sem = Cardinality(Holding)
    /\ sem <= goroutines
    /\ \A r \in Regions :
          /\ elog[r].acquired <= 1
          /\ elog[r].acquired - elog[r].released = (IF r \in Holding THEN 1 ELSE 0)
          /\ epc[r] = "over" =>
                elog[r].acquired = (IF cbRegions[r].serviced THEN 1 ELSE 0)
    /\ wg >= Cardinality(RunningChecks)
    /\ mainPc # "spawn" => RunningChecks = {} /\ nextRegion > Len(cbRegions)

\* the semaphore of capacity one is full: a worker holds it while it sends,
\* another one waits to acquire it
C20_Witness ==
    /\ goroutines = 1 /\ sem = 1
    /\ \E r, q \in Regions :
          /\ epc[r] = "send" /\ esent[r] = 1
          /\ epc[q] = "acquire"
====
